---- MODULE Spec2Model ----
(***************************************************************************)
(* A model of rosinstall's multiproject_cmd.py: element selection          *)
(* (_select_element), configuration loading and saving (get_config,        *)
(* cmd_persist_config), the status/diff collectors (cmd_status, cmd_diff)  *)
(* with the status alignment of                                            *)
(* StatusRetriever.do_work, and the two-phase prepare/install              *)
(* orchestration (cmd_install_or_update), together with the work           *)
(* distributor (common.DistributedWork) those commands hand their work     *)
(* units to.                                                               *)
(*                                                                         *)
(* A path or name is a sequence of components; an absolute path starts     *)
(* with the component "/".  <<"/", "ws", "foo">> is /ws/foo and <<"foo">>  *)
(* is the relative name foo.  Python's None is the empty sequence where a  *)
(* string is expected and index 0 where an element is expected.            *)
(***************************************************************************)
EXTENDS Integers, Sequences, FiniteSets, TLC

VARIABLES
  elements,             \* config.get_config_elements(): sequence of elements
  links,                \* the filesystem's symbolic links: path -> target
  localname,            \* the localname argument of the command (or None)
  robust,               \* the robust argument of cmd_install_or_update
  cmd,                  \* the command being run
  pc,                   \* the position of the command in its code
  i,                    \* index of the element the prepare loop is at
  success,              \* local variable success of cmd_install_or_update
  preparation_reports,  \* local list preparation_reports (element indexes)
  prepared,             \* history: elements prepare_install was invoked on
  threads,              \* the distributor's work units, in submission order
  unitState,            \* per work unit: pending, running, done or failed
  completed,            \* history: work units in completion order
  outputs,              \* the distributor's result slots
  outcome,              \* how the command ended: returned value or raised error
  basepath,             \* the workspace base path (config.get_base_path())
  backup_path,          \* the backup_path argument of cmd_install_or_update
  received,             \* history: the backup_path each prepare_install got
  additional_uris,      \* the additional_uris argument of get_config
  config_filename,      \* the config_filename argument of get_config
  files,                \* the declarations each configuration source holds
  scmtype,              \* path_spec.get_scmtype() of a status work unit
  status                \* element.get_status(...) of a status work unit

\* The arguments of the commands
args == <<basepath, backup_path, additional_uris, config_filename, scmtype,
          status>>

\* The arguments, and the configuration sources, which only
\* cmd_persist_config writes
inputs == <<args, files>>

vars == <<elements, links, localname, robust, cmd, pc, i, success,
          preparation_reports, prepared, threads, unitState, completed,
          outputs, outcome, received, inputs>>

\* ---------------------------------------------------------------- bounds

MaxElems == 3

\* ------------------------------------------------------- paths and names

None == << >>
NoElement == 0

Root == "/"
Cwd == <<Root, "ws">>
PFoo == <<Root, "ws", "foo">>
PBar == <<Root, "ws", "bar">>
PLnk == <<Root, "l">>

IsAbs(p) == Len(p) > 0 /\ p[1] = Root

\* os.path.join(a, b): an absolute b replaces a
join(a, b) == IF IsAbs(b) THEN b ELSE a \o b

\* The filesystems considered: /l may be a symbolic link to /ws/foo or to
\* /ws/bar, and /ws/bar may be a symbolic link to /ws/foo.
LinkStates ==
  { l1 @@ l2 : l1 \in { << >>, (PLnk :> PFoo), (PLnk :> PBar) },
               l2 \in { << >>, (PBar :> PFoo) } }

\* Follow the symbolic links of path p component by component, starting from
\* the resolved prefix cur.
RECURSIVE Resolve(_, _, _)
Resolve(lk, cur, rest) ==
  IF rest = << >> THEN cur
  ELSE LET nxt == Append(cur, Head(rest))
       IN IF nxt \in DOMAIN lk
            THEN Resolve(lk, <<Root>>, Tail(lk[nxt]) \o Tail(rest))
            ELSE Resolve(lk, nxt, Tail(rest))

\* os.path.realpath(p): absolute (relative to the working directory), with
\* every symbolic link followed
realpath(p) == Resolve(links, <<Root>>, Tail(join(Cwd, p)))

\* ------------------------------------------------- arguments left unused

\* get_scmtype() of an element that is not under version control, and the
\* status of an element get_status has none for
NoScm == "None"
NoStatus == <<"None">>

\* The additional_uris argument: None, or a list of configuration sources
Absent == [given |-> FALSE, list |-> << >>]
Given(l) == [given |-> TRUE, list |-> l]

NoSources == additional_uris = Absent /\ config_filename = None /\ files = << >>
NoStatusInput == scmtype = NoScm /\ status = NoStatus

\* ---------------------------------------------------------------- elements

\* What an element's prepare_install does when called: returns None, returns
\* a PreparationReport with its abort and skip flags, or raises.
NoReport == [result |-> "none", abort |-> FALSE, skip |-> FALSE, exc |-> "-"]
Report(a, s) == [result |-> "report", abort |-> a, skip |-> s, exc |-> "-"]
Raises(e) == [result |-> "raise", abort |-> FALSE, skip |-> FALSE, exc |-> e]

MPE == "MultiProjectException"
OtherError == "OSError"

PrepareOutcomes ==
  {NoReport} \cup {Report(a, s) : a \in BOOLEAN, s \in BOOLEAN}
             \cup {Raises(MPE), Raises(OtherError)}

\* What an element's install, get_status or get_diff does when called:
\* returns, or raises an exception of some kind
NoFailure == "-"
WorkOutcomes == {NoFailure, MPE, OtherError}

\* A config element: its local name, its path, whether it is under version
\* control, what its prepare_install yields, and what its work unit
\* (install, get_status or get_diff) ends with.
Element(n, p, v, prep, f) ==
  [localName |-> n, path |-> p, vcs |-> v, prepare |-> prep, work |-> f]

RECURSIVE SeqsUpTo(_, _)
SeqsUpTo(S, n) ==
  IF n = 0 THEN { << >> }
  ELSE LET shorter == SeqsUpTo(S, n - 1)
       IN shorter \cup { Append(q, x) : q \in {r \in shorter : Len(r) = n - 1},
                                        x \in S }

\* ---------------------------------------------------------- _select_element

\* Variant of the loop that tests the real path before the local name
RECURSIVE SelectLoopPathFirst(_, _, _, _, _)
SelectLoopPathFirst(els, name, rp, k, cand) ==
  IF k > Len(els) THEN cand
  ELSE IF rp = realpath(els[k].path)
    THEN SelectLoopPathFirst(els, name, rp, k + 1, k)
  ELSE IF name = els[k].localName THEN k
  ELSE SelectLoopPathFirst(els, name, rp, k + 1, cand)

\* Variant of the loop that keeps the first real-path match
RECURSIVE SelectLoopFirstPath(_, _, _, _, _)
SelectLoopFirstPath(els, name, rp, k, cand) ==
  IF k > Len(els) THEN cand
  ELSE IF name = els[k].localName THEN k
  ELSE IF rp = realpath(els[k].path)
    THEN SelectLoopFirstPath(els, name, rp, k + 1,
                             IF cand = NoElement THEN k ELSE cand)
  ELSE SelectLoopFirstPath(els, name, rp, k + 1, cand)

\* The for loop of _select_element from element k on, with path_candidate
\* holding cand: a local-name match ends the loop, a real-path match is kept
\* and the loop goes on.
RECURSIVE SelectLoop(_, _, _, _, _)
SelectLoop(els, name, rp, k, cand) ==
  IF k > Len(els) THEN cand
  ELSE IF name = els[k].localName THEN k
  ELSE IF rp = realpath(els[k].path) THEN SelectLoop(els, name, rp, k + 1, k)
  ELSE SelectLoop(els, name, rp, k + 1, cand)

\* Variant of _select_element that returns None when nothing matches
SelectElementNoRaise(els, name) ==
  IF name = None
    THEN [raised |-> FALSE, value |-> NoElement]
    ELSE [raised |-> FALSE,
          value |-> SelectLoop(els, name, realpath(name), 1, NoElement)]

\* _select_element(elements, localname): the index of the selected element,
\* NoElement for None, or the raised MultiProjectException
_select_element(els, name) ==
  IF name = None
    THEN [raised |-> FALSE, value |-> NoElement]
    ELSE LET cand == SelectLoop(els, name, realpath(name), 1, NoElement)
         IN IF cand = NoElement
              THEN [raised |-> TRUE, value |-> NoElement]
              ELSE [raised |-> FALSE, value |-> cand]

\* ------------------------------------------------------------------ outcome

\* A raised error carries its kind, the place it was raised at ("select",
\* "prepare" or "run") and the element (prepare) or work unit (run) it is about.
Running == [kind |-> "running", value |-> << >>, error |-> "-", at |-> "-", unit |-> 0]
Returned(v) == [kind |-> "returned", value |-> v, error |-> "-", at |-> "-", unit |-> 0]
Raised(e, where, u) == [kind |-> "raised", value |-> << >>, error |-> e, at |-> where, unit |-> u]

\* ------------------------------------------------- selection on its own

Queries == {None, <<"foo">>, <<"bar">>, <<"baz">>, PFoo, PBar, PLnk}

SelectElements ==
  { Element(n, p, TRUE, NoReport, NoFailure) :
      n \in {<<"foo">>, <<"bar">>}, p \in {PFoo, PBar, PLnk} }

InitSelect ==
  /\ elements \in SeqsUpTo(SelectElements, MaxElems)
  /\ links \in LinkStates
  /\ localname \in Queries
  /\ robust = FALSE
  /\ cmd = "select"
  /\ pc = "call"
  /\ i = 0
  /\ success = TRUE
  /\ preparation_reports = << >>
  /\ prepared = << >>
  /\ threads = << >>
  /\ unitState = << >>
  /\ completed = << >>
  /\ outputs = << >>
  /\ outcome = Running
  /\ received = << >>
  /\ basepath = Cwd
  /\ backup_path = None
  /\ NoSources
  /\ NoStatusInput

\* A call of _select_element(elements, localname)
Select ==
  /\ cmd = "select"
  /\ pc = "call"
  /\ LET r == _select_element(elements, localname)
     IN outcome' = IF r.raised THEN Raised(MPE, "select", 0) ELSE Returned(r.value)
  /\ pc' = "done"
  /\ UNCHANGED <<inputs, received, elements, links, localname, robust, cmd, i, success,
                 preparation_reports, prepared, threads, unitState,
                 completed, outputs>>

NextSelect == Select

SpecSelect == InitSelect /\ [][NextSelect]_vars

\* -------------------------------------------------- the work distributor

\* The name and the path of the element declared at position k
NameAt(k) == <<"pkg" \o ToString(k)>>
PathAt(k) == join(Cwd, NameAt(k))

Finished(st) == st \in {"done", "failed"}

\* The result a work unit leaves in its slot: do_work's dictionary, or the
\* exception the unit raised
UnitOutput(el, key, exc) ==
  IF exc # NoFailure THEN [element |-> el, key |-> "error", error |-> exc]
                     ELSE [element |-> el, key |-> key, error |-> NoFailure]

\* DistributedWork(capacity) with the units added by add_thread, in the
\* order of the calls
NewWork(units) ==
  [state   |-> [u \in 1..Len(units) |-> "pending"],
   outputs |-> [u \in 1..Len(units) |-> [element |-> NoElement, key |-> "-", error |-> NoFailure]]]

\* run() waits for every unit: it ends only when none is pending or running
AllFinished(st) == \A u \in DOMAIN st : Finished(st[u])

FailedUnits(st) == {u \in DOMAIN st : st[u] = "failed"}

Lowest(S) == CHOOSE m \in S : \A n \in S : m <= n

\* The results run() hands back: the slots, in submission order
JoinOutputs(outs, done) == outs

\* Variant of run()'s end that raises the failure observed first in time
RunResultFirstCompleted(st, outs, done) ==
  IF FailedUnits(st) # {}
    THEN LET n == Lowest({m \in DOMAIN done : st[done[m]] = "failed"})
         IN Raised(outs[done[n]].error, "run", done[n])
    ELSE Returned(JoinOutputs(outs, done))

\* What run() ends with once all units are finished: the failure of the
\* failed unit that was submitted first, raised again as it is, or the
\* results
RunResult(st, outs, done) ==
  IF FailedUnits(st) # {}
    THEN LET u == Lowest(FailedUnits(st))
         IN Raised(outs[u].error, "run", u)
    ELSE Returned(JoinOutputs(outs, done))

\* A work unit is started as a concurrent task
UnitStart(u) ==
  /\ pc = "run"
  /\ u \in DOMAIN unitState
  /\ unitState[u] = "pending"
  /\ unitState' = [unitState EXCEPT ![u] = "running"]
  /\ UNCHANGED <<inputs, received, elements, links, localname, robust, cmd, pc, i, success,
                 preparation_reports, prepared, threads, completed, outputs,
                 outcome>>

\* A running work unit completes: do_work returns or raises
UnitFinish(u) ==
  /\ pc = "run"
  /\ u \in DOMAIN unitState
  /\ unitState[u] = "running"
  /\ LET exc == elements[threads[u]].work
     IN /\ unitState' = [unitState EXCEPT ![u] =
                           IF exc # NoFailure THEN "failed" ELSE "done"]
        /\ outputs' = [outputs EXCEPT ![u] = UnitOutput(threads[u], cmd, exc)]
  /\ completed' = Append(completed, u)
  /\ UNCHANGED <<inputs, received, elements, links, localname, robust, cmd, pc, i, success,
                 preparation_reports, prepared, threads, outcome>>

\* ---------------------------------------------------- cmd_status, cmd_diff

\* Variant of the collectors' loop that adds the units last element first
RECURSIVE VcsUnitsReversed(_, _)
VcsUnitsReversed(els, k) ==
  IF k > Len(els) THEN << >>
  ELSE IF els[k].vcs THEN VcsUnitsReversed(els, k + 1) \o <<k>>
  ELSE VcsUnitsReversed(els, k + 1)

\* The work units cmd_status and cmd_diff add: the selected element alone,
\* or every element under version control, in configuration order
RECURSIVE VcsUnits(_, _)
VcsUnits(els, k) ==
  IF k > Len(els) THEN << >>
  ELSE IF els[k].vcs THEN <<k>> \o VcsUnits(els, k + 1)
  ELSE VcsUnits(els, k + 1)

\* Variant of the collectors' units that leaves out a selected element that
\* is not under version control
CollectorUnitsVcsOnly(els, selected) ==
  IF selected # NoElement
    THEN (IF els[selected].vcs THEN <<selected>> ELSE << >>)
    ELSE VcsUnits(els, 1)

\* The units added: the selected element alone, or the elements under
\* version control
CollectorUnits(els, selected) ==
  IF selected # NoElement THEN <<selected>> ELSE VcsUnits(els, 1)

\* cmd_status / cmd_diff up to work.run(): select, then add the work units
Collect(c) ==
  /\ pc = "call"
  /\ LET sel == _select_element(elements, localname)
     IN IF sel.raised
          THEN /\ outcome' = Raised(MPE, "select", 0)
               /\ pc' = "done"
               /\ UNCHANGED <<threads, unitState, outputs>>
          ELSE LET units == CollectorUnits(elements, sel.value)
               IN /\ threads' = units
                  /\ unitState' = NewWork(units).state
                  /\ outputs' = NewWork(units).outputs
                  /\ pc' = "run"
                  /\ UNCHANGED outcome
  /\ UNCHANGED <<inputs, received, elements, links, localname, robust, cmd, i, success,
                 preparation_reports, prepared, completed>>

cmd_status ==
  /\ cmd = "status"
  /\ Collect("status")

cmd_diff ==
  /\ cmd = "diff"
  /\ Collect("diff")

\* work.run() ends and cmd_status / cmd_diff returns its outputs, or lets
\* its failure through
CollectJoin ==
  /\ cmd \in {"status", "diff"}
  /\ pc = "run"
  /\ AllFinished(unitState)
  /\ outcome' = RunResult(unitState, outputs, completed)
  /\ pc' = "done"
  /\ UNCHANGED <<inputs, received, elements, links, localname, robust, cmd, i, success,
                 preparation_reports, prepared, threads, unitState,
                 completed, outputs>>

CollectorElements(k) ==
  { Element(NameAt(k), PathAt(k), v, NoReport, f) :
      v \in BOOLEAN, f \in WorkOutcomes }

CollectorQueries == {None, NameAt(1), NameAt(2), PathAt(2), <<"nomatch">>}

\* The configurations of n elements for the collectors
RECURSIVE CollectorConfigs(_)
CollectorConfigs(n) ==
  IF n = 0 THEN { << >> }
  ELSE { Append(q, x) : q \in CollectorConfigs(n - 1), x \in CollectorElements(n) }

InitCollect ==
  /\ elements \in UNION { CollectorConfigs(n) : n \in 0..MaxElems }
  /\ links = << >>
  /\ localname \in CollectorQueries
  /\ robust = FALSE
  /\ cmd \in {"status", "diff"}
  /\ pc = "call"
  /\ i = 0
  /\ success = TRUE
  /\ preparation_reports = << >>
  /\ prepared = << >>
  /\ threads = << >>
  /\ unitState = << >>
  /\ completed = << >>
  /\ outputs = << >>
  /\ outcome = Running
  /\ received = << >>
  /\ basepath = Cwd
  /\ backup_path = None
  /\ NoSources
  /\ NoStatusInput

NextCollect ==
  \/ cmd_status
  \/ cmd_diff
  \/ \E u \in 1..MaxElems : UnitStart(u)
  \/ \E u \in 1..MaxElems : UnitFinish(u)
  \/ CollectJoin

SpecCollect == InitCollect /\ [][NextCollect]_vars

\* ---------------------------------------------------- cmd_install_or_update

\* Variant of the prepare loop's pass without the test of report.abort
HandlePrepareNoAbortTest(r, rb) ==
  IF r.result = "raise" /\ r.exc # MPE THEN "propagate"
  ELSE IF r.result = "raise" THEN (IF rb THEN "tolerate" ELSE "raise")
  ELSE IF r.result = "report" /\ ~r.skip THEN "enqueue"
  ELSE "next"

\* Variant of the prepare loop's pass without the test of report.skip
HandlePrepareNoSkipTest(r, rb) ==
  IF r.result = "raise" /\ r.exc # MPE THEN "propagate"
  ELSE IF r.result = "raise" \/ (r.result = "report" /\ r.abort)
    THEN (IF rb THEN "tolerate" ELSE "raise")
  ELSE IF r.result = "report" THEN "enqueue"
  ELSE "next"

\* Variant of the prepare loop's pass that tests report.skip before
\* report.abort
HandlePrepareSkipFirst(r, rb) ==
  IF r.result = "raise" /\ r.exc # MPE THEN "propagate"
  ELSE IF r.result = "report" /\ r.skip THEN "next"
  ELSE IF r.result = "raise" \/ (r.result = "report" /\ r.abort)
    THEN (IF rb THEN "tolerate" ELSE "raise")
  ELSE IF r.result = "report" THEN "enqueue"
  ELSE "next"

\* What one pass of the prepare loop does with the outcome r of
\* prepare_install, the try/except included:
\*   "propagate": an exception the except clause does not catch leaves the
\*                command;
\*   "raise":     MultiProjectException("Failed to install tree ...") is
\*                raised (robust is false);
\*   "tolerate":  success becomes False and the loop goes on (robust is true);
\*   "enqueue":   the report is appended to preparation_reports;
\*   "next":      nothing to do for this element (no report, or a skip).
HandlePrepare(r, rb) ==
  IF r.result = "raise" /\ r.exc # MPE THEN "propagate"
  ELSE IF r.result = "raise" \/ (r.result = "report" /\ r.abort)
    THEN (IF rb THEN "tolerate" ELSE "raise")
  ELSE IF r.result = "report" /\ ~r.skip THEN "enqueue"
  ELSE "next"

\* The backup directories a caller gives: none, a relative one, an
\* absolute one
BackupPaths == {None, <<".backup">>, <<Root, "bk">>}

\* Variant of abs_backup_path that hands the caller's backup_path on as it is
AbsBackupPathUnjoined(base, backup) == backup

\* abs_backup_path: None, or the backup_path joined to the base path
AbsBackupPath(base, backup) ==
  IF backup # None THEN join(base, backup) ELSE None

\* Variant of the prepare loop that ends after its first pass
LoopDoneEarly(k, els) == k > Len(els) \/ k > 1

\* The prepare loop's end: the for loop has gone through every element
LoopDone(k, els) == k > Len(els)

\* The start of cmd_install_or_update, up to the prepare loop (the base
\* path's directory, created here when missing, is not part of the state)
InstallBegin ==
  /\ cmd = "install"
  /\ pc = "call"
  /\ success' = TRUE
  /\ preparation_reports' = << >>
  /\ i' = 1
  /\ pc' = "prepare"
  /\ UNCHANGED <<inputs, received, elements, links, localname, robust, cmd, prepared, threads,
                 unitState, completed, outputs, outcome>>

\* One pass of the prepare loop, for element i
Prepare ==
  /\ cmd = "install"
  /\ pc = "prepare"
  /\ ~LoopDone(i, elements)
  /\ prepared' = Append(prepared, i)
  /\ received' = Append(received, AbsBackupPath(basepath, backup_path))
  /\ LET r == elements[i].prepare
         act == HandlePrepare(r, robust)
     IN /\ success' = IF act = "tolerate" THEN FALSE ELSE success
        /\ preparation_reports' =
             IF act = "enqueue" THEN Append(preparation_reports, i)
                                ELSE preparation_reports
        /\ IF act \in {"propagate", "raise"}
             THEN /\ outcome' = Raised(IF act = "raise" THEN MPE ELSE r.exc, "prepare", i)
                  /\ pc' = "done"
                  /\ UNCHANGED i
             ELSE /\ i' = i + 1
                  /\ UNCHANGED <<outcome, pc>>
  /\ UNCHANGED <<inputs, elements, links, localname, robust, cmd, threads, unitState,
                 completed, outputs>>

\* The work units of the install phase: one Installer per enqueued report
InstallUnits(reports) == reports

\* After the prepare loop: the Installers are added to a DistributedWork
AddInstallers ==
  /\ cmd = "install"
  /\ pc = "prepare"
  /\ LoopDone(i, elements)
  /\ LET units == InstallUnits(preparation_reports)
     IN /\ threads' = units
        /\ unitState' = NewWork(units).state
        /\ outputs' = NewWork(units).outputs
  /\ pc' = "run"
  /\ UNCHANGED <<inputs, received, elements, links, localname, robust, cmd, i, success,
                 preparation_reports, prepared, completed, outcome>>

\* Whether the except clause of work.run() catches what run() ended with:
\* it names MultiProjectException only
Caught(run) == run.kind = "raised" /\ run.error = MPE

\* Variant of the end of cmd_install_or_update that leaves success as it is
\* when work.run() raises
InstallOutcomeKeepsSuccess(run, rb, ok) ==
  IF Caught(run)
    THEN (IF rb THEN Returned(ok) ELSE run)
    ELSE (IF run.kind = "raised" THEN run ELSE Returned(ok))

\* Variant of the end of cmd_install_or_update that never raises
InstallOutcomeNeverRaises(run, rb, ok) ==
  IF run.kind = "raised" THEN Returned(FALSE) ELSE Returned(ok)

\* How cmd_install_or_update ends given what work.run() ended with and the
\* value of success: a MultiProjectException of run() makes success False
\* and is raised again unless robust; an exception of another kind is not
\* caught and leaves the command as it is; otherwise success is returned
InstallOutcome(run, rb, ok) ==
  IF Caught(run)
    THEN (IF rb THEN Returned(FALSE) ELSE run)
    ELSE (IF run.kind = "raised" THEN run ELSE Returned(ok))

\* work.run() ends, and cmd_install_or_update with it
InstallJoin ==
  /\ cmd = "install"
  /\ pc = "run"
  /\ AllFinished(unitState)
  /\ LET run == RunResult(unitState, outputs, completed)
     IN /\ success' = IF Caught(run) THEN FALSE ELSE success
        /\ outcome' = InstallOutcome(run, robust, success)
  /\ pc' = "done"
  /\ UNCHANGED <<inputs, received, elements, links, localname, robust, cmd, i,
                 preparation_reports, prepared, threads, unitState,
                 completed, outputs>>

\* The elements at position k: only an element whose report proceeds to the
\* install phase has an install that can fail
InstallElements(k) ==
  { e \in { Element(NameAt(k), PathAt(k), TRUE, r, f) :
              r \in PrepareOutcomes, f \in WorkOutcomes } :
      e.work # NoFailure => e.prepare = Report(FALSE, FALSE) }

\* The configurations of n elements for cmd_install_or_update
RECURSIVE InstallConfigs(_)
InstallConfigs(n) ==
  IF n = 0 THEN { << >> }
  ELSE { Append(q, x) : q \in InstallConfigs(n - 1), x \in InstallElements(n) }

InitInstall ==
  /\ elements \in UNION { InstallConfigs(n) : n \in 0..MaxElems }
  /\ links = << >>
  /\ localname = None
  /\ robust \in BOOLEAN
  /\ cmd = "install"
  /\ pc = "call"
  /\ i = 0
  /\ success = TRUE
  /\ preparation_reports = << >>
  /\ prepared = << >>
  /\ threads = << >>
  /\ unitState = << >>
  /\ completed = << >>
  /\ outputs = << >>
  /\ outcome = Running
  /\ received = << >>
  /\ basepath = Cwd
  /\ backup_path \in BackupPaths
  /\ NoSources
  /\ NoStatusInput

NextInstall ==
  \/ InstallBegin
  \/ Prepare
  \/ AddInstallers
  \/ \E u \in 1..MaxElems : UnitStart(u)
  \/ \E u \in 1..MaxElems : UnitFinish(u)
  \/ InstallJoin

SpecInstall == InitInstall /\ [][NextInstall]_vars

\* ------------------------------------------------------------- get_config

MaxDecls == 2

ConfigName == <<".rosinstall">>
OtherSource == <<Root, "other.rosinstall">>
Sources == {join(Cwd, ConfigName), OtherSource}

\* A declaration of a source: a local name and a path, relative or absolute
Decl(p) == [localName |-> p, path |-> p]
Decls == {Decl(<<"foo">>), Decl(PFoo), Decl(<<"bar">>)}

\* aggregate_from_uris(uris, config_filename, basepath): the declarations of
\* the sources, concatenated in the order of the sources
RECURSIVE aggregate_from_uris(_, _)
aggregate_from_uris(uris, fs) ==
  IF uris = << >> THEN << >>
  ELSE fs[Head(uris)] \o aggregate_from_uris(Tail(uris), fs)

\* The path of a declaration resolved against the base path
ResolvedPath(base, d) == join(base, d.path)

\* Variant of the aggregation that keeps the first declaration of a path
RECURSIVE AggregateKeepFirst(_, _, _, _)
AggregateKeepFirst(specs, base, n, trees) ==
  IF n > Len(specs) THEN trees
  ELSE LET p == ResolvedPath(base, specs[n])
           el == [decl |-> n, localName |-> specs[n].localName, path |-> p]
       IN IF \E k \in DOMAIN trees : trees[k].path = p
            THEN AggregateKeepFirst(specs, base, n + 1, trees)
            ELSE AggregateKeepFirst(specs, base, n + 1, Append(trees, el))

\* Config(path_specs, basepath, config_filename) from declaration n on, with
\* the elements trees so far: a declaration removes the element of the same
\* resolved path, if any, and is appended
RECURSIVE Aggregate(_, _, _, _)
Aggregate(specs, base, n, trees) ==
  IF n > Len(specs) THEN trees
  ELSE LET p == ResolvedPath(base, specs[n])
           el == [decl |-> n, localName |-> specs[n].localName, path |-> p]
           kept == SelectSeq(trees, LAMBDA t : t.path # p)
       IN Aggregate(specs, base, n + 1, Append(kept, el))

\* The error of os.path.join(basepath, None): TypeError (AttributeError
\* before Python 3)
JoinNoneError == "TypeError"

\* The sources get_config reads: additional_uris, or the config file of the
\* base path when only config_filename is given
EffectiveUris(base, uris, fname) ==
  IF ~uris.given /\ fname # None THEN Given(<<join(base, fname)>>) ELSE uris

\* get_config(basepath, additional_uris, config_filename)
GetConfig(base, uris, fname, fs) ==
  IF base = None THEN Raised(MPE, "get_config", 0)
  ELSE LET eff == EffectiveUris(base, uris, fname)
       IN IF ~eff.given THEN Raised(MPE, "get_config", 0)
          ELSE LET path_specs == aggregate_from_uris(eff.list, fs)
               IN IF Len(path_specs) = 0
                    THEN (IF fname = None
                            THEN Raised(JoinNoneError, "get_config", 0)
                            ELSE Raised(MPE, "get_config", 0))
                    ELSE Returned(Aggregate(path_specs, base, 1, << >>))

\* A call of get_config, the first or one that follows a
\* cmd_persist_config
get_config ==
  /\ \/ cmd = "config" /\ pc = "call"
     \/ cmd = "persist" /\ pc = "done"
  /\ outcome' = GetConfig(basepath, additional_uris, config_filename, files)
  /\ cmd' = "config"
  /\ pc' = "done"
  /\ UNCHANGED <<inputs, received, elements, links, localname, robust,
                 i, success, preparation_reports, prepared, threads,
                 unitState, completed, outputs>>

\* config_yaml.generate_config_yaml(config, filename, header): the
\* declarations written for a Config, one per element, in the order of the
\* elements, each as it was declared
generate_config_yaml(config) ==
  [k \in DOMAIN config |-> Decl(config[k].localName)]

\* cmd_persist_config(config, filename, header) on the Config that
\* get_config returned: the file named filename now holds the Config's
\* declarations; the command returns None
cmd_persist_config(filename) ==
  /\ cmd = "config"
  /\ pc = "done"
  /\ outcome.kind = "returned"
  /\ filename \in Sources
  /\ files' = [files EXCEPT ![filename] = generate_config_yaml(outcome.value)]
  /\ outcome' = Returned(None)
  /\ cmd' = "persist"
  /\ UNCHANGED <<args, received, elements, links, localname, robust, pc,
                 i, success, preparation_reports, prepared, threads,
                 unitState, completed, outputs>>

UriLists ==
  { << >>, <<join(Cwd, ConfigName)>>, <<OtherSource>>,
    <<join(Cwd, ConfigName), OtherSource>>,
    <<OtherSource, join(Cwd, ConfigName)>> }

InitConfig ==
  /\ basepath \in {None, Cwd}
  /\ additional_uris \in {Absent} \cup {Given(l) : l \in UriLists}
  /\ config_filename \in {None, ConfigName}
  /\ files \in [Sources -> SeqsUpTo(Decls, MaxDecls)]
  /\ cmd = "config"
  /\ pc = "call"
  /\ elements = << >>
  /\ links = << >>
  /\ localname = None
  /\ robust = FALSE
  /\ i = 0
  /\ success = TRUE
  /\ preparation_reports = << >>
  /\ prepared = << >>
  /\ threads = << >>
  /\ unitState = << >>
  /\ completed = << >>
  /\ outputs = << >>
  /\ outcome = Running
  /\ received = << >>
  /\ backup_path = None
  /\ NoStatusInput

NextConfig ==
  \/ get_config
  \/ \E f \in Sources : cmd_persist_config(f)

SpecConfig == InitConfig /\ [][NextConfig]_vars

\* -------------------------------------------- StatusRetriever.do_work

MaxStatusLen == 5

\* A status text is a sequence of characters
NL == "\n"
Chars == {"M", " ", "f", NL}

\* str.splitlines(): the lines of a text, without their line ends; a line
\* end at the end of the text starts no further line
RECURSIVE SplitFrom(_, _)
SplitFrom(text, cur) ==
  IF text = << >> THEN (IF cur = << >> THEN << >> ELSE <<cur>>)
  ELSE IF Head(text) = NL THEN <<cur>> \o SplitFrom(Tail(text), << >>)
  ELSE SplitFrom(Tail(text), Append(cur, Head(text)))

splitlines(text) == SplitFrom(text, << >>)

\* line[:n] and line[n:]
Upto(line, n) == SubSeq(line, 1, IF n < Len(line) THEN n ELSE Len(line))
From(line, n) == SubSeq(line, n + 1, Len(line))

StatusWidth == 8

\* str.ljust(w)
ljust(str, w) ==
  IF Len(str) >= w THEN str ELSE str \o [k \in 1..(w - Len(str)) |-> " "]

\* Variant of the marker widths with git's taken for hg's
ColumnsGitAsHg(scm) ==
  IF scm = "git" THEN 2
  ELSE IF scm = "hg" THEN 2
  ELSE IF scm = "bzr" THEN 4
  ELSE -1

\* The width of the backend's status marker, -1 when not known
Columns(scm) ==
  IF scm = "git" THEN 3
  ELSE IF scm = "hg" THEN 2
  ELSE IF scm = "bzr" THEN 4
  ELSE -1

\* The for loop over status.splitlines(), from line k on
RECURSIVE AlignLines(_, _, _, _)
AlignLines(lines, columns, k, status_aligned) ==
  IF k > Len(lines) THEN status_aligned
  ELSE AlignLines(lines, columns, k + 1,
                  status_aligned \o ljust(Upto(lines[k], columns), StatusWidth)
                                 \o From(lines[k], columns) \o <<NL>>)

\* The status do_work returns for get_status's st
AlignStatus(scm, st) ==
  LET columns == Columns(scm)
  IN IF columns > -1 /\ st # NoStatus
       THEN AlignLines(splitlines(st), columns, 1, << >>)
       ELSE st

\* A call of StatusRetriever.do_work
do_work ==
  /\ cmd = "do_work"
  /\ pc = "call"
  /\ outcome' = Returned(AlignStatus(scmtype, status))
  /\ pc' = "done"
  /\ UNCHANGED <<inputs, received, elements, links, localname, robust, cmd,
                 i, success, preparation_reports, prepared, threads,
                 unitState, completed, outputs>>

ScmTypes == {"git", "hg", "bzr", "svn", "tar", NoScm}

InitStatus ==
  /\ scmtype \in ScmTypes
  /\ status \in {NoStatus} \cup SeqsUpTo(Chars, MaxStatusLen)
  /\ cmd = "do_work"
  /\ pc = "call"
  /\ elements = << >>
  /\ links = << >>
  /\ localname = None
  /\ robust = FALSE
  /\ i = 0
  /\ success = TRUE
  /\ preparation_reports = << >>
  /\ prepared = << >>
  /\ threads = << >>
  /\ unitState = << >>
  /\ completed = << >>
  /\ outputs = << >>
  /\ outcome = Running
  /\ received = << >>
  /\ basepath = Cwd
  /\ backup_path = None
  /\ NoSources

NextStatus == do_work

SpecStatus == InitStatus /\ [][NextStatus]_vars

\* ------------------------------------------------------ all the commands

Init == InitSelect \/ InitCollect \/ InitInstall \/ InitConfig \/ InitStatus

Next ==
  \/ Select
  \/ get_config
  \/ \E f \in Sources : cmd_persist_config(f)
  \/ do_work
  \/ cmd_status
  \/ cmd_diff
  \/ CollectJoin
  \/ InstallBegin
  \/ Prepare
  \/ AddInstallers
  \/ InstallJoin
  \/ \E u \in 1..MaxElems : UnitStart(u)
  \/ \E u \in 1..MaxElems : UnitFinish(u)

Spec == Init /\ [][Next]_vars

\* ================================================================ claims

\* The command has returned the value v
Returns(v) == outcome.kind = "returned" /\ outcome.value = v


NameMatch(k) == localname = elements[k].localName
PathMatch(k) == realpath(localname) = realpath(elements[k].path)
NameMatches == {k \in DOMAIN elements : NameMatch(k)}
PathMatches == {k \in DOMAIN elements : PathMatch(k)}
Highest(S) == CHOOSE m \in S : \A n \in S : n <= m

\* The two-pass reference of the selector: the first element whose local
\* name is the query, else the last element whose real path is the query's
TwoPassSelect ==
  IF NameMatches # {} THEN Lowest(NameMatches)
  ELSE IF PathMatches # {} THEN Highest(PathMatches)
  ELSE NoElement

SelectDone == cmd = "select" /\ pc = "done"

\* C4: with a present query that is the local name of at least one element,
\* _select_element returns the first such element, whatever elements before
\* or after it match the query by real path; the single-pass loop agrees
\* with the two-pass reference.
C4_FirstLocalNameWins ==
  (SelectDone /\ localname # None /\ NameMatches # {})
    => /\ Returns(Lowest(NameMatches))
       /\ outcome.value = TwoPassSelect

C4_Witness ==
  /\ SelectDone
  /\ localname # None
  /\ outcome.kind = "returned"
  /\ \E j, k, m \in DOMAIN elements :
       /\ j < k /\ k < m
       /\ NameMatch(k)
       /\ \A n \in NameMatches : k <= n
       /\ PathMatch(j) /\ PathMatch(m)
       /\ outcome.value = k

\* C5: with a present query that is no element's local name but whose real
\* path is that of one or more elements' paths, _select_element returns the
\* last such element.
C5_LastPathMatchWins ==
  (SelectDone /\ localname # None /\ NameMatches = {} /\ PathMatches # {})
    => Returns(Highest(PathMatches))

C5_Witness ==
  /\ SelectDone
  /\ localname # None
  /\ NameMatches = {}
  /\ Cardinality(PathMatches) >= 2
  /\ outcome.kind = "returned"
  /\ outcome.value = Highest(PathMatches)
  /\ outcome.value # Lowest(PathMatches)

\* C6: _select_element raises exactly when the query is present and matches
\* no element by local name nor by real path (an empty sequence included);
\* with an absent query it never raises and returns None.
C6_RaisesIffNoMatch ==
  SelectDone =>
    /\ (outcome.kind = "raised")
         <=> (localname # None /\ NameMatches = {} /\ PathMatches = {})
    /\ (outcome.kind = "raised") => (outcome.error = MPE)
    /\ (localname = None) => (Returns(NoElement))

C6_Witness ==
  /\ SelectDone
  /\ localname # None
  /\ Len(elements) >= 2
  /\ outcome.kind = "raised"

InstallDone == cmd = "install" /\ pc = "done"
AbortReport(k) ==
  elements[k].prepare.result = "report" /\ elements[k].prepare.abort
PrepareRaises(k) == elements[k].prepare.result = "raise"
NoUnitStarted == \A u \in DOMAIN unitState : unitState[u] = "pending"
InOrder(n) == [k \in 1..n |-> k]

\* C1: with robust false, once the preparation of an element yields a report
\* with abort set, the command has raised, prepare_install is invoked on no
\* later element, and no install work unit is ever started, the reports
\* enqueued before it included.
C1_AbortStopsEverything ==
  (cmd = "install" /\ ~robust) =>
    \A n \in DOMAIN prepared :
      AbortReport(prepared[n]) =>
        /\ outcome = Raised(MPE, "prepare", prepared[n])
        /\ pc = "done"
        /\ n = Len(prepared)
        /\ prepared = InOrder(n)
        /\ threads = << >>
        /\ NoUnitStarted
        /\ completed = << >>

C1_Witness ==
  /\ InstallDone
  /\ ~robust
  /\ Len(elements) = 3
  /\ prepared = <<1, 2>>
  /\ preparation_reports = <<1>>
  /\ AbortReport(2)
  /\ outcome.kind = "raised"

\* C2: with robust true, a report with abort set does not stop the run:
\* prepare_install is invoked on every element in configuration order, the
\* install phase runs for every enqueued report, no error is raised and the
\* command returns false.
C2_RobustAbortContinues ==
  (InstallDone /\ robust /\ \E n \in DOMAIN prepared : AbortReport(prepared[n]))
    => /\ prepared = InOrder(Len(elements))
       /\ threads = preparation_reports
       /\ AllFinished(unitState)
       /\ Returns(FALSE)

\* C3: when cmd_install_or_update returns, it returns true exactly when no
\* element's preparation aborted or raised and no work unit of the install
\* phase failed.
C3_ReturnValue ==
  (InstallDone /\ outcome.kind = "returned") =>
    /\ outcome.value \in BOOLEAN
    /\ (outcome.value = TRUE)
         <=> /\ \A k \in DOMAIN elements : ~AbortReport(k) /\ ~PrepareRaises(k)
             /\ FailedUnits(unitState) = {}

C3_Witness ==
  /\ InstallDone
  /\ robust
  /\ Returns(FALSE)
  /\ \E k \in DOMAIN elements : AbortReport(k)
  /\ threads # << >>
  /\ FailedUnits(unitState) = {}

\* C7: the results of cmd_status and cmd_diff are in the submission order of
\* the work units, which is the configuration order of the participating
\* elements, whatever the order the units complete in.
C7_ResultsInSubmissionOrder ==
  (cmd \in {"status", "diff"} /\ pc = "done" /\ outcome.kind = "returned") =>
    /\ Len(outcome.value) = Len(threads)
    /\ \A k \in DOMAIN threads :
         /\ outcome.value[k].element = threads[k]
         /\ outcome.value[k].key = cmd
    /\ \A j, k \in DOMAIN threads :
         j < k => outcome.value[j].element < outcome.value[k].element

C7_Witness ==
  /\ cmd \in {"status", "diff"}
  /\ pc = "done"
  /\ outcome.kind = "returned"
  /\ completed = <<2, 1, 3>>
  /\ Len(outcome.value) = 3

\* C8: a failing work unit cancels no sibling: when the distributor's run
\* has ended with a failure, every submitted unit has completed, and the
\* failure raised is that of the failed unit submitted first
\* (cmd_install_or_update turns a MultiProjectException into a false result
\* when robust).
C8_NoCancellationLowestFailure ==
  (pc = "done" /\ FailedUnits(unitState) # {}) =>
    LET u == Lowest(FailedUnits(unitState))
        exc == elements[threads[u]].work
    IN /\ AllFinished(unitState)
       /\ Len(completed) = Len(threads)
       /\ \A v \in DOMAIN threads : \E n \in DOMAIN completed : completed[n] = v
       /\ IF cmd = "install" /\ robust /\ exc = MPE
            THEN Returns(FALSE)
            ELSE outcome = Raised(exc, "run", u)

C8_Witness ==
  /\ pc = "done"
  /\ completed = <<3, 2, 1>>
  /\ FailedUnits(unitState) = {2, 3}
  /\ elements[threads[2]].work = MPE
  /\ elements[threads[3]].work = OtherError
  /\ outcome = Raised(MPE, "run", 2)

\* C9: a failure of the install phase's distributor makes the command
\* return false, without raising, when robust, and is raised to the caller,
\* no boolean returned, when not robust.
C9_InstallFailureHandling ==
  (InstallDone /\ FailedUnits(unitState) # {}) =>
    IF robust
      THEN Returns(FALSE)
      ELSE /\ outcome.kind = "raised"
           /\ outcome.error = elements[threads[Lowest(FailedUnits(unitState))]].work
           /\ outcome.at = "run"

\* C10: any exception raised by an element's prepare_install, whatever its
\* kind, is a failure of that element: when robust, success becomes false
\* and the loop goes on to the next element; when not robust, the command is
\* aborted at once with the wrapped MultiProjectException about the element.
C10_AnyPrepareExceptionHandled ==
  cmd = "install" =>
    \A n \in DOMAIN prepared :
      LET k == prepared[n]
      IN PrepareRaises(k) =>
           IF robust
             THEN /\ success = FALSE
                  /\ i > k
                  /\ ~(outcome.kind = "raised" /\ outcome.at = "prepare")
             ELSE /\ outcome = Raised(MPE, "prepare", k)
                  /\ pc = "done"

Proceeds(k) == elements[k].prepare = Report(FALSE, FALSE)
Skips(k) == elements[k].prepare = Report(FALSE, TRUE)
Increasing(q) == \A j, k \in DOMAIN q : j < k => q[j] < q[k]
Range(q) == {q[k] : k \in DOMAIN q}
CollectorCmd == cmd \in {"status", "diff"}

\* C11: the prepare phase of cmd_install_or_update is sequential in
\* configuration order and wholly precedes the install phase: the elements
\* prepared so far are 1..n in order, and no install work unit exists or
\* has started before prepare_install has been invoked on every element.
C11_PrepareBeforeInstall ==
  cmd = "install" =>
    /\ prepared = InOrder(Len(prepared))
    /\ (pc = "prepare") => (threads = << >> /\ NoUnitStarted /\ Len(prepared) = i - 1)
    /\ (pc = "run" \/ threads # << >> \/ ~NoUnitStarted)
         => prepared = InOrder(Len(elements))

C11_Witness ==
  /\ cmd = "install"
  /\ pc = "run"
  /\ Len(elements) = 3
  /\ prepared = <<1, 2, 3>>
  /\ \E u \in DOMAIN unitState : unitState[u] = "running"

\* C12: once the install phase is reached, the install work units are, in
\* configuration order, exactly the elements whose preparation yielded a
\* report with neither abort nor skip set; an element with no report or a
\* skip gets none, a skip alone does not make the result false, and no
\* element is installed twice.
C12_InstallUnitsAreProceedReports ==
  (cmd = "install" /\ pc \in {"run", "done"} /\ LoopDone(i, elements)) =>
    /\ Increasing(threads)
    /\ Range(threads) = {k \in DOMAIN elements : Proceeds(k)}
    /\ \A m, n \in DOMAIN completed : completed[m] = completed[n] => m = n
    /\ ( /\ pc = "done"
         /\ \A k \in DOMAIN elements :
              elements[k].prepare = NoReport \/ Skips(k) \/ Proceeds(k)
         /\ FailedUnits(unitState) = {} )
         => Returns(TRUE)

C12_Witness ==
  /\ InstallDone
  /\ Len(elements) = 3
  /\ Skips(1) /\ Proceeds(2) /\ elements[3].prepare = NoReport
  /\ threads = <<2>>
  /\ completed = <<1>>
  /\ Returns(TRUE)

\* C15: without a selection, cmd_status and cmd_diff submit one work unit
\* per element under version control, in configuration order, and none for
\* the others; with a selection they submit one work unit, for the selected
\* element, under version control or not.
C15_CollectorUnits ==
  (CollectorCmd /\ pc \in {"run", "done"} /\ outcome.at # "select") =>
    IF localname = None
      THEN /\ Increasing(threads)
           /\ Range(threads) = {k \in DOMAIN elements : elements[k].vcs}
      ELSE /\ Len(threads) = 1
           /\ threads[1] = TwoPassSelect

C15_Witness ==
  /\ CollectorCmd
  /\ pc = "done"
  /\ localname # None
  /\ Len(elements) = 3
  /\ threads = <<2>>
  /\ ~elements[2].vcs
  /\ elements[1].vcs
  /\ outcome.kind = "returned"

\* C18: a preparation report has one effective outcome: with abort set it
\* is an abort, skip set or not (never enqueued, never merely skipped); with
\* abort clear and skip set it is skipped; with both clear it is enqueued
\* for the install phase.
C18_ReportOutcome ==
  cmd = "install" =>
    \A n \in DOMAIN prepared :
      LET k == prepared[n]
          r == elements[k].prepare
          enq == {m \in DOMAIN preparation_reports : preparation_reports[m] = k}
      IN r.result = "report" =>
           /\ r.abort =>
                /\ enq = {}
                /\ IF robust THEN success = FALSE
                             ELSE outcome = Raised(MPE, "prepare", k)
           /\ (~r.abort /\ r.skip) =>
                /\ enq = {}
                /\ i > k
                /\ ~(outcome.at = "prepare" /\ outcome.unit = k)
           /\ (~r.abort /\ ~r.skip) =>
                /\ Cardinality(enq) = 1
                /\ i > k

C18_Witness ==
  /\ cmd = "install"
  /\ robust
  /\ Len(prepared) >= 2
  /\ elements[1].prepare = Report(TRUE, TRUE)
  /\ Proceeds(2)
  /\ preparation_reports = <<2>>
  /\ success = FALSE

\* C19: when cmd_status or cmd_diff is called with a name that matches no
\* element, the selection error reaches the caller and no work unit is added
\* to the distributor or executed.
C19_SelectionErrorPropagates ==
  (CollectorCmd /\ pc # "call" /\ localname # None
     /\ NameMatches = {} /\ PathMatches = {}) =>
    /\ outcome = Raised(MPE, "select", 0)
    /\ pc = "done"
    /\ threads = << >>
    /\ unitState = << >>
    /\ completed = << >>

C19_Witness ==
  /\ CollectorCmd
  /\ pc = "done"
  /\ Len(elements) >= 2
  /\ elements[1].vcs
  /\ outcome.kind = "raised"
  /\ outcome.at = "select"

\* C20: with robust false, cmd_install_or_update never returns false: it
\* raises or returns true.
C20_NonRobustNeverReturnsFalse ==
  (cmd = "install" /\ ~robust) =>
    /\ (outcome.kind = "returned") => (outcome.value = TRUE)
    /\ (pc = "done") => (outcome.kind \in {"returned", "raised"})

C20_Witness ==
  /\ InstallDone
  /\ ~robust
  /\ Len(threads) >= 2
  /\ Returns(TRUE)

\* C17: every prepare_install of cmd_install_or_update receives the same
\* backup path: none when no backup directory is given, else the backup
\* directory joined onto the base path (/ws and .backup give /ws/.backup;
\* os.path.join leaves an absolute backup directory as it is).
C17_BackupPath ==
  cmd = "install" =>
    /\ Len(received) = Len(prepared)
    /\ \A n \in DOMAIN received :
         /\ received[n] = received[1]
         /\ (backup_path = None) => (received[n] = None)
         /\ (backup_path # None /\ backup_path[1] # Root)
              => received[n] = basepath \o backup_path
         /\ (backup_path # None /\ backup_path[1] = Root)
              => received[n] = backup_path

C17_Witness ==
  /\ cmd = "install"
  /\ basepath = <<Root, "ws">>
  /\ backup_path = <<".backup">>
  /\ received = <<<<Root, "ws", ".backup">>, <<Root, "ws", ".backup">>,
                  <<Root, "ws", ".backup">>>>

ConfigDone == cmd = "config" /\ pc = "done"

\* The declarations get_config's sources yield, in order
PathSpecs ==
  aggregate_from_uris(EffectiveUris(basepath, additional_uris, config_filename).list,
                      files)

\* C13: the aggregated configuration holds, for each distinct resolved path
\* of the declarations, exactly one element, the declaration of that path
\* with the highest index, and the elements are in increasing order of their
\* declaration index (paths A,B,A give [B,A2]; A,A,B give [A2,B]).
C13_LastDeclarationWins ==
  (ConfigDone /\ outcome.kind = "returned") =>
    LET cfg == outcome.value
        same(n) == {m \in DOMAIN PathSpecs :
                      ResolvedPath(basepath, PathSpecs[m])
                        = ResolvedPath(basepath, PathSpecs[n])}
    IN /\ \A k \in DOMAIN cfg :
            /\ cfg[k].decl \in DOMAIN PathSpecs
            /\ cfg[k].path = ResolvedPath(basepath, PathSpecs[cfg[k].decl])
            /\ cfg[k].localName = PathSpecs[cfg[k].decl].localName
       /\ \A j, k \in DOMAIN cfg : j < k => cfg[j].decl < cfg[k].decl
       /\ {cfg[k].decl : k \in DOMAIN cfg}
            = {n \in DOMAIN PathSpecs : n = Highest(same(n))}

C13_Witness ==
  /\ ConfigDone
  /\ outcome.kind = "returned"
  /\ Len(PathSpecs) = 3
  /\ PathSpecs[1].path = <<"foo">>
  /\ PathSpecs[2].path = <<"bar">>
  /\ PathSpecs[3].path = PFoo
  /\ Len(outcome.value) = 2
  /\ outcome.value[1].decl = 2
  /\ outcome.value[2].decl = 3

\* C14: get_config fails with a MultiProjectException, building no Config,
\* whenever its sources yield no declaration, whether the source list and
\* the config filename are given or not, and also when basepath is absent or
\* when the source list and the config filename are both absent.
C14_NoDeclarationsIsConfigurationError ==
  ( /\ ConfigDone
    /\ \/ basepath = None
       \/ (~additional_uris.given /\ config_filename = None)
       \/ Len(PathSpecs) = 0 )
    => outcome = Raised(MPE, "get_config", 0)

\* The marker widths the backends are known by
KnownWidth == [git |-> 3, hg |-> 2, bzr |-> 4]

\* C16: for a backend of known marker width N (git 3, hg 2, bzr 4) and a
\* status that is not None, do_work rewrites every line as its first N
\* characters padded on the right to 8 columns, followed by the rest of the
\* line; for another backend, or a None status, the status is returned as
\* it is.
C16_StatusAlignment ==
  (cmd = "do_work" /\ pc = "done") =>
    /\ outcome.kind = "returned"
    /\ IF scmtype \in DOMAIN KnownWidth /\ status # NoStatus
         THEN LET N == KnownWidth[scmtype]
                  lines == splitlines(status)
                  out == splitlines(outcome.value)
              IN /\ Len(out) = Len(lines)
                 /\ Cardinality({p \in DOMAIN outcome.value : outcome.value[p] = NL})
                      = Len(lines)
                 /\ \A j \in DOMAIN lines :
                      LET l == lines[j]
                          h == IF Len(l) < N THEN Len(l) ELSE N
                      IN /\ Len(out[j]) = 8 + Len(l) - h
                         /\ \A p \in 1..h : out[j][p] = l[p]
                         /\ \A p \in (h + 1)..8 : out[j][p] = " "
                         /\ \A p \in 1..(Len(l) - h) : out[j][8 + p] = l[N + p]
         ELSE outcome.value = status

C16_Witness ==
  /\ cmd = "do_work"
  /\ pc = "done"
  /\ scmtype = "git"
  /\ status = <<"M", " ", " ", "f">>
  /\ outcome.value = <<"M", " ", " ", " ", " ", " ", " ", " ", "f", NL>>

====
